---- MODULE Spec2Model ----
(***************************************************************************)
(* Model of package proc: the /proc/<pid>/stat decoder.                    *)
(*   StatStream  - the tokenizer (isEOF, isSpace, next)                     *)
(*   StatField   - the 52-field record, fieldParseMap and fill              *)
(*   Stat        - NewStat and the Parse driver loop                        *)
(* Bytes are numbers 0..255; a buffer, a token and a string are sequences   *)
(* of bytes.  Integers wider than TLC's own are kept as their             *)
(* decimal digit sequences, so 32 and 64 bit ranges are the real ones.      *)
(***************************************************************************)
EXTENDS Integers, Sequences, FiniteSets, TLC

VARIABLES
    file,     \* bytes ioutil.ReadFile(s.pf) will deliver
    data,     \* *s.stream.data
    cur,      \* s.stream.cur (0-based index into data)
    end,      \* s.stream.end
    fields,   \* *s.fields, the one StatField NewStat allocated
    pos,      \* parseProgressIndex of Parse / progress of fill
    call,     \* << progress, field >> of the last call of fill (<< >>: none yet)
    tok,      \* the string next() returned last / the field given to fill
    eof,      \* next() returned erreof with it
    from,     \* s.stream.cur when the last next() began
    nexts,    \* next() calls made on the stream since it was set up
    before,   \* *s.fields before the last fill
    pc,       \* where the caller is
    ret,      \* the *StatField Parse returned: "nil" or "fields"
    err,      \* the error Parse or fill returned: "nil", "syntax", "range"
    held,     \* a caller holds the pointer s.fields from a Parse that returned it
    calls,    \* number of Parse calls begun on this Stat
    failed,   \* the Parse calls that returned an error
    origin    \* per record field, the Parse call whose fill last assigned it (0: none)

vars == << file, data, cur, end, fields, pos, call, tok, eof, from, nexts, before, pc, ret,
           err, held, calls, failed, origin >>

----------------------------------------------------------------------------
(* Bounds of the model *)

\* short buffers: every byte sequence over Alphabet of at most this length
MaxLen == 3
\* records carry up to this many tokens beyond the 52nd
MaxExtra == 1
\* next() calls made on one stream when the tokenizer is driven alone
MaxCalls == 4
\* Parse calls made on one Stat when it is reused
MaxParses == 2
\* tokens of the records a reused Stat reads
MaxReuseTokens == 4

----------------------------------------------------------------------------
(* Bytes the code names *)

NL == 10
SP == 32
Running == 82
Sleeping == 83
DiskSleep == 68
Zombie == 90
Stopped == 84
TracingStop == 116
Dead == 88
Dead2633To313 == 120
Wakekill == 75
PagingWaking == 87
Parked == 80

NumFields == 52

----------------------------------------------------------------------------
(* type StatField: the field of each position, and its declared type *)

FieldNames == <<
    "Pid", "Comm", "State", "PPid", "PGrp", "Session",
    "TTYNR", "TPGid", "TaskFlags", "MinFlt", "CMinFlt", "MajFlt",
    "CMajFlt", "UTime", "STime", "CUTime", "CSTime", "Priority",
    "Nice", "NumThreads", "ItRealValue", "StartTime", "VSize", "RSS",
    "RSSLim", "StartCode", "EndCode", "StartStack", "KStkEsp", "KStkEip",
    "TaskPendingSig", "TaskBlockSig", "SigIgnoreSig", "SigCatchSig", "WChan", "NSwap",
    "CNSwap", "ExitSignal", "Processor", "RtPriority", "Policy", "DelayacctBlkioTicks",
    "GuestTime", "CGuestTime", "StartData", "EndData", "StartBrk", "ArgStart",
    "ArgEnd", "EnvStart", "EnvEnd", "ExitCode" >>

FieldTypes == <<
    "int32", "string", "StatTaskState", "int32", "int32", "int32",
    "int32", "int32", "uint32", "uint64", "uint64", "uint64",
    "uint64", "uint64", "uint64", "int64", "int64", "int64",
    "int64", "int64", "int64", "uint64", "uint64", "uint64",
    "uint64", "uint64", "uint64", "uint64", "uint64", "uint64",
    "uint64", "uint64", "uint64", "uint64", "uint64", "uint64",
    "uint64", "int32", "int32", "uint32", "uint32", "uint64",
    "uint64", "int64", "uint64", "uint64", "uint64", "uint64",
    "uint64", "uint64", "uint64", "int32" >>

FieldNameSet == { FieldNames[i] : i \in 1..NumFields }

TypeOf(name) == FieldTypes[CHOOSE i \in 1..NumFields : FieldNames[i] = name]

\* numbers: sign and decimal magnitude without leading zeros (zero is <<>>)
Num(neg, mag) == [neg |-> neg /\ mag # << >>, mag |-> mag]

Zero == Num(FALSE, << >>)

ZeroValue(type) ==
    CASE type = "string" -> << >>
      [] type = "StatTaskState" -> 0
      [] OTHER -> Zero

\* new(StatField)
ZeroStatField == [f \in FieldNameSet |-> ZeroValue(TypeOf(f))]

----------------------------------------------------------------------------
(* strconv.ParseUint / strconv.ParseInt with base 10, as the covers call   *)
(* them.  n is kept as its digit sequence; "n*10+d exceeds maxVal" is the   *)
(* library's overflow test (n >= cutoff, n1 < n, n1 > maxVal).              *)

IsDigit(c) == c >= 48 /\ c <= 57

\* a < b digit by digit, for sequences of one length
LexLess(a, b) ==
    \E i \in 1..Len(a) :
        a[i] < b[i] /\ \A j \in 1..(i - 1) : a[j] = b[j]

\* a < b for magnitudes without leading zeros
MagLess(a, b) ==
    \/ Len(a) < Len(b)
    \/ Len(a) = Len(b) /\ LexLess(a, b)

\* n*10 + d
MulAdd(n, d) == IF n = << >> /\ d = 0 THEN << >> ELSE Append(n, d)

\* 1<<bitSize - 1
MaxVal(bitSize) ==
    CASE bitSize = 16 -> << 6,5,5,3,5 >>
      [] bitSize = 32 -> << 4,2,9,4,9,6,7,2,9,5 >>
      [] bitSize = 64 -> << 1,8,4,4,6,7,4,4,0,7,3,7,0,9,5,5,1,6,1,5 >>

\* 1 << (bitSize-1)
Cutoff(bitSize) ==
    CASE bitSize = 16 -> << 3,2,7,6,8 >>
      [] bitSize = 32 -> << 2,1,4,7,4,8,3,6,4,8 >>
      [] bitSize = 64 -> << 9,2,2,3,3,7,2,0,3,6,8,5,4,7,7,5,8,0,8 >>

\* cutoff - 1
CutoffLess1(bitSize) ==
    CASE bitSize = 16 -> << 3,2,7,6,7 >>
      [] bitSize = 32 -> << 2,1,4,7,4,8,3,6,4,7 >>
      [] bitSize = 64 -> << 9,2,2,3,3,7,2,0,3,6,8,5,4,7,7,5,8,0,7 >>

\* one turn of the digit loop on byte c, from the result st of the turns
\* before it; a turn after the loop has returned does nothing
DigitStep(st, c, maxVal) ==
    IF st.err # "nil" THEN st
    ELSE IF ~IsDigit(c) THEN [val |-> << >>, err |-> "syntax"]
    ELSE LET n1 == MulAdd(st.val, c - 48)
         IN  IF MagLess(maxVal, n1) THEN [val |-> maxVal, err |-> "range"]
             ELSE [val |-> n1, err |-> "nil"]

\* the turns of the loop on bytes lo..hi of s, in order
RECURSIVE ScanDigits(_, _, _, _, _)
ScanDigits(s, lo, hi, st, maxVal) ==
    IF st.err # "nil" \/ lo > hi THEN st
    ELSE IF lo = hi THEN DigitStep(st, s[lo], maxVal)
    ELSE LET mid == (lo + hi) \div 2
         IN  ScanDigits(s, mid + 1, hi, ScanDigits(s, lo, mid, st, maxVal), maxVal)

ParseUint(s, bitSize) ==
    IF s = << >> THEN [val |-> << >>, err |-> "syntax"]
    ELSE ScanDigits(s, 1, Len(s), [val |-> << >>, err |-> "nil"], MaxVal(bitSize))

ParseInt(s, bitSize) ==
    IF s = << >> THEN [val |-> Zero, err |-> "syntax"]
    ELSE LET neg == s[1] = 45
             rest == IF s[1] = 43 \/ s[1] = 45 THEN Tail(s) ELSE s
             un == ParseUint(rest, bitSize)
         IN  IF un.err = "syntax" THEN [val |-> Zero, err |-> "syntax"]
             ELSE IF ~neg /\ ~MagLess(un.val, Cutoff(bitSize))
                  THEN [val |-> Num(FALSE, CutoffLess1(bitSize)), err |-> "range"]
             ELSE IF neg /\ MagLess(Cutoff(bitSize), un.val)
                  THEN [val |-> Num(TRUE, Cutoff(bitSize)), err |-> "range"]
             ELSE [val |-> Num(neg, un.val), err |-> "nil"]

----------------------------------------------------------------------------
(* int16Cover .. uint64Cover *)

int16Cover(s) ==
    LET r == ParseInt(s, 16)
    IN  IF r.err # "nil" THEN [val |-> Zero, err |-> r.err] ELSE r

uint16Cover(s) ==
    LET r == ParseUint(s, 16)
    IN  IF r.err # "nil" THEN [val |-> Zero, err |-> r.err]
        ELSE [val |-> Num(FALSE, r.val), err |-> "nil"]

\* int32Cover as it would be with the width left out of the parse: the value
\* is parsed at 64 bits and handed on without a range check
int32Cover_Unchecked(s) ==
    LET r == ParseInt(s, 64)
    IN  IF r.err # "nil" THEN [val |-> Zero, err |-> r.err] ELSE r

int32Cover(s) ==
    LET r == ParseInt(s, 32)
    IN  IF r.err # "nil" THEN [val |-> Zero, err |-> r.err] ELSE r

uint32Cover(s) ==
    LET r == ParseUint(s, 32)
    IN  IF r.err # "nil" THEN [val |-> Zero, err |-> r.err]
        ELSE [val |-> Num(FALSE, r.val), err |-> "nil"]

\* returns ParseInt's pair as is: the saturated value comes with a range error
int64Cover(s) == ParseInt(s, 64)

\* returns ParseUint's pair as is
uint64Cover(s) ==
    LET r == ParseUint(s, 64)
    IN  [val |-> Num(FALSE, r.val), err |-> r.err]

Cover(name, s) ==
    CASE name = "int16Cover" -> int16Cover(s)
      [] name = "uint16Cover" -> uint16Cover(s)
      [] name = "int32Cover" -> int32Cover(s)
      [] name = "uint32Cover" -> uint32Cover(s)
      [] name = "int64Cover" -> int64Cover(s)
      [] name = "uint64Cover" -> uint64Cover(s)

----------------------------------------------------------------------------
(* fieldParseMap: per position, the field its closure assigns and the      *)
(* conversion it calls                                                      *)

MapTarget == <<
    "Pid", "Comm", "State", "PPid", "PGrp", "Session",
    "TTYNR", "TPGid", "TaskFlags", "MinFlt", "CMinFlt", "MajFlt",
    "MajFlt", "UTime", "STime", "CUTime", "CSTime", "Priority",
    "Nice", "NumThreads", "ItRealValue", "StartTime", "VSize", "RSS",
    "RSSLim", "StartCode", "EndCode", "StartStack", "KStkEsp", "KStkEip",
    "TaskPendingSig", "TaskBlockSig", "SigIgnoreSig", "SigCatchSig", "WChan", "NSwap",
    "CNSwap", "ExitSignal", "Processor", "RtPriority", "Policy", "DelayacctBlkioTicks",
    "GuestTime", "CGuestTime", "StartData", "EndData", "StartBrk", "ArgStart",
    "ArgEnd", "EnvStart", "EnvEnd", "ExitCode" >>

MapCover == <<
    "int32Cover", "text", "state", "int32Cover", "int32Cover", "int32Cover",
    "int32Cover", "int32Cover", "uint32Cover", "uint64Cover", "uint64Cover", "uint64Cover",
    "uint64Cover", "uint64Cover", "uint64Cover", "int64Cover", "int64Cover", "int64Cover",
    "int64Cover", "int64Cover", "int64Cover", "uint64Cover", "uint64Cover", "uint64Cover",
    "uint64Cover", "uint64Cover", "uint64Cover", "uint64Cover", "uint64Cover", "uint64Cover",
    "uint64Cover", "uint64Cover", "uint64Cover", "uint64Cover", "uint64Cover", "uint64Cover",
    "uint64Cover", "int32Cover", "int32Cover", "uint32Cover", "uint32Cover", "uint64Cover",
    "uint64Cover", "int64Cover", "uint64Cover", "uint64Cover", "uint64Cover", "uint64Cover",
    "uint64Cover", "uint64Cover", "uint64Cover", "int32Cover" >>

\* StatTaskState(b): a byte converted to int8
Int8(b) == IF b >= 128 THEN b - 256 ELSE b

\* the closure of position 3
StateOf(b) ==
    CASE Int8(b) = Running -> Running
      [] Int8(b) = Sleeping -> Sleeping
      [] Int8(b) = DiskSleep -> DiskSleep
      [] Int8(b) = Zombie -> Zombie
      [] Int8(b) = Stopped -> Stopped
      [] Int8(b) = TracingStop -> TracingStop
      [] Int8(b) = PagingWaking -> PagingWaking
      [] Int8(b) = Dead -> Dead
      [] Int8(b) = Dead2633To313 -> Dead2633To313
      [] Int8(b) = Wakekill -> Wakekill
      [] Int8(b) = Parked -> Parked
      [] OTHER -> Int8(b)

\* fieldParseMap[progress](field, sf): the record after the call, the error,
\* and whether the call panicked (data[0] of an empty string)
parseFunc(progress, field, sf) ==
    CASE MapCover[progress] = "text" ->
            [sf |-> [sf EXCEPT ![MapTarget[progress]] = field],
             err |-> "nil", panic |-> FALSE]
      [] MapCover[progress] = "state" ->
            IF field = << >>
            THEN [sf |-> sf, err |-> "nil", panic |-> TRUE]
            ELSE [sf |-> [sf EXCEPT ![MapTarget[progress]] = StateOf(field[1])],
                  err |-> "nil", panic |-> FALSE]
      [] OTHER ->
            LET r == Cover(MapCover[progress], field)
            IN  [sf |-> [sf EXCEPT ![MapTarget[progress]] = r.val],
                 err |-> r.err, panic |-> FALSE]

\* the keys of fieldParseMap
MapKeys == 1..NumFields

\* fill as it would be if it dropped the closure's error
fill_DropErr(sf, field, progress) ==
    IF progress \in MapKeys
    THEN [parseFunc(progress, field, sf) EXCEPT !.err = "nil"]
    ELSE [sf |-> sf, err |-> "nil", panic |-> FALSE]

\* fill as it would be without the ok test of the map lookup: the nil
\* function of a missing key is called
fill_NoOkTest(sf, field, progress) ==
    IF progress \in MapKeys
    THEN parseFunc(progress, field, sf)
    ELSE [sf |-> sf, err |-> "nil", panic |-> TRUE]

\* (sf *StatField) fill(field, progress)
fill(sf, field, progress) ==
    IF progress \in MapKeys
    THEN parseFunc(progress, field, sf)
    ELSE [sf |-> sf, err |-> "nil", panic |-> FALSE]

----------------------------------------------------------------------------
(* StatStream *)

\* Go's bounds check of (*ss.data)[c]
InRange(d, c) == c >= 0 /\ c < Len(d)

\* (ss *StatStream) isEOF, where the index is in range
isEOF(d, c) == d[c + 1] = NL

\* isSpace as it would be if a space between "(" and ")" did not count
isSpace_KeepComm(d, c) ==
    /\ d[c + 1] = SP
    /\ Cardinality({ j \in 1..c : d[j] = 40 }) <= Cardinality({ j \in 1..c : d[j] = 41 })

\* (ss *StatStream) isSpace, where the index is in range
isSpace(d, c) == d[c + 1] = SP

\* the for loop of next(): c is ss.cur, buf the bytes appended so far.
\* panic is the run-time panic of indexing the buffer out of range.
RECURSIVE scan(_, _, _)
scan(d, c, buf) ==
    CASE ~InRange(d, c) ->
            [tok |-> << >>, cur |-> c, eof |-> FALSE, panic |-> TRUE]
      [] InRange(d, c) /\ isEOF(d, c) ->
            [tok |-> buf, cur |-> c, eof |-> TRUE, panic |-> FALSE]
      [] InRange(d, c) /\ ~isEOF(d, c) /\ isSpace(d, c) ->
            [tok |-> buf, cur |-> c + 1, eof |-> FALSE, panic |-> FALSE]
      [] OTHER -> scan(d, c + 1, Append(buf, d[c + 1]))

\* (ss *StatStream) next()
next(d, c) == scan(d, c, << >>)

----------------------------------------------------------------------------
(* Inputs *)

Alphabet == { SP, NL, 49, 82 }

Seqs(S, n) == UNION { [1..k -> S] : k \in 0..n }

ShortBuffers == Seqs(Alphabet, MaxLen)

\* the decimal text of a digit sequence
Dec(ds) == [i \in 1..Len(ds) |-> 48 + ds[i]]

Minus(t) == << 45 >> \o t

TestTokens ==
    { Dec(<< 0 >>), Dec(<< 7 >>), Minus(Dec(<< 1 >>)), << 43, 55 >>,
      Dec(<< 0, 0, 7 >>), Minus(Dec(<< 0 >>)),
      Dec(CutoffLess1(32)), Dec(Cutoff(32)),
      Minus(Dec(Cutoff(32))), Minus(Dec(<< 2,1,4,7,4,8,3,6,4,9 >>)),
      Dec(MaxVal(32)), Dec(<< 4,2,9,4,9,6,7,2,9,6 >>),
      Dec(CutoffLess1(64)), Dec(Cutoff(64)),
      Minus(Dec(Cutoff(64))),
      Minus(Dec(<< 9,2,2,3,3,7,2,0,3,6,8,5,4,7,7,5,8,0,9 >>)),
      Dec(MaxVal(64)),
      Dec(<< 1,8,4,4,6,7,4,4,0,7,3,7,0,9,5,5,1,6,1,6 >>),
      Dec(<< 4,2,9,4,9,6,7,2,9,6 >>) \o << 120 >>,
      Dec(<< 1,8,4,4,6,7,4,4,0,7,3,7,0,9,5,5,1,6,1,6 >>) \o << 120 >>,
      << 49, 120 >>, << 120 >>, << 49, 95, 48 >>, << 45 >>,
      << 82 >>, << 81 >>, << 200 >>, << 40, 97, 41 >> }

\* a plausible token of position i: "(a)", "S", or the decimal text of i
DefaultToken(i) ==
    CASE i = 2 -> << 40, 97, 41 >>
      [] i = 3 -> << Sleeping >>
      [] i < 10 /\ i # 2 /\ i # 3 -> Dec(<< i >>)
      [] OTHER -> Dec(<< i \div 10, i % 10 >>)

\* tokens lo..hi of toks with one space between neighbours
RECURSIVE Join(_, _, _)
Join(toks, lo, hi) ==
    IF lo > hi THEN << >>
    ELSE IF lo = hi THEN toks[lo]
    ELSE LET mid == (lo + hi) \div 2
         IN  Join(toks, lo, mid) \o << SP >> \o Join(toks, mid + 1, hi)

\* n tokens separated by single spaces: the default ones, with t at position p
Record(n, p, t) ==
    Join([i \in 1..n |-> IF i = p THEN t ELSE DefaultToken(i)], 1, n)

RecordBuffers ==
    { Record(NumFields, p, t) \o << NL >> : p \in 1..NumFields, t \in TestTokens }
    \cup { Record(n, n, t) \o << NL >> :
             n \in (NumFields + 1)..(NumFields + MaxExtra), t \in TestTokens }
    \cup { Record(n, 0, << >>) \o term :
             n \in { 3, NumFields, NumFields + MaxExtra },
             term \in { << >>, << SP >>, << SP, NL >> } }

\* the first nine tokens of the record "1 (init) S 0 1 1 0 -1 4210944 ..."
InitTokens ==
    << Dec(<< 1 >>), << 40, 105, 110, 105, 116, 41 >>, << Sleeping >>,
       Dec(<< 0 >>), Dec(<< 1 >>), Dec(<< 1 >>), Dec(<< 0 >>),
       Minus(Dec(<< 1 >>)), Dec(<< 4, 2, 1, 0, 9, 4, 4 >>) >>

\* that record cut after its n-th token, default tokens from the tenth on
InitRecord(n) ==
    Join([i \in 1..n |-> IF i <= Len(InitTokens) THEN InitTokens[i]
                                                 ELSE DefaultToken(i)], 1, n)

\* the true fields of a record "42 (a b) s 4 5 ..." whose comm holds a space
CommSpaceField(s, i) ==
    CASE i = 1 -> Dec(<< 4, 2 >>)
      [] i = 2 -> << 40, 97, SP, 98, 41 >>
      [] i = 3 -> s
      [] OTHER -> DefaultToken(i)

\* the bytes of that record: its 52 fields joined by single spaces
CommSpaceRecord(s) == Join([i \in 1..NumFields |-> CommSpaceField(s, i)], 1, NumFields)

\* what stands in the state field of the records with a space in comm
CommSpaceStates == { << Running >>, Dec(<< 7 >>) }

ExampleBuffers ==
    { InitRecord(n) \o << NL >> : n \in { Len(InitTokens), NumFields } }
    \cup { CommSpaceRecord(s) \o << NL >> : s \in CommSpaceStates }

\* token counts of the records that stop short of the 52nd field
ShortCounts == { 3, 12, 13, 20 }

\* records of k < 52 tokens: ended by the newline, begun by a space, and
\* with two spaces after the k-th token before more tokens
TruncatedBuffers ==
    { Record(k, 0, << >>) \o << NL >> : k \in ShortCounts }
    \cup { << SP >> \o Record(k, 0, << >>) \o << NL >> : k \in ShortCounts }
    \cup { Record(k, 0, << >>) \o << SP, SP >> \o Dec(<< 7 >>) \o << NL >> :
             k \in ShortCounts }

Buffers == ShortBuffers \cup RecordBuffers \cup ExampleBuffers \cup TruncatedBuffers

\* contents the file takes when a Stat is parsed again: short records with
\* one token replaced, the empty record, a leading space, no newline, nothing
ReuseFiles ==
    { Record(MaxReuseTokens, p, t) \o << NL >> :
          p \in 0..MaxReuseTokens, t \in { << 120 >>, << 55 >> } }
    \cup { << NL >>, << SP, 49, NL >>, << 49 >>, << >> }

\* arguments of a direct call of fill
FillPositions == (0 - 1)..(NumFields + MaxExtra + 1)

FillTokens == TestTokens \cup { << >> }

\* the last position of the table that assigns field n, 0 if none does
LastWrite(n) ==
    IF \E p \in MapKeys : MapTarget[p] = n
    THEN CHOOSE p \in MapKeys :
             /\ MapTarget[p] = n
             /\ \A q \in MapKeys : MapTarget[q] = n => q <= p
    ELSE 0

\* a record with every position decoded: the fills of the default record,
\* each field holding what the last fill that assigns it left there
FilledStatField ==
    [n \in FieldNameSet |->
        fill(ZeroStatField, DefaultToken(LastWrite(n)), LastWrite(n)).sf[n]]

FillRecords == { ZeroStatField, FilledStatField }

----------------------------------------------------------------------------
(* Stat: NewStat and Parse *)

NoOrigin == [f \in FieldNameSet |-> 0]

\* NewStat(proc), with the file s.pf names holding the bytes f
NewStat(f) ==
    /\ file = f
    /\ data = << >>
    /\ cur = 0
    /\ end = 0
    /\ fields = ZeroStatField
    /\ pos = 0
    /\ call = << >>
    /\ tok = << >>
    /\ eof = FALSE
    /\ from = 0
    /\ nexts = 0
    /\ before = ZeroStatField
    /\ pc = "new"
    /\ ret = "nil"
    /\ err = "nil"
    /\ held = FALSE
    /\ calls = 0
    /\ failed = {}
    /\ origin = NoOrigin

Init == \E f \in Buffers : NewStat(f)

\* Parse up to the loop: ReadFile succeeded
ParseBegin ==
    /\ pc = "new"
    /\ data' = file
    /\ cur' = 0
    /\ end' = Len(file)
    /\ pos' = 1
    /\ nexts' = 0
    /\ calls' = calls + 1
    /\ ret' = "nil"
    /\ err' = "nil"
    /\ pc' = "decoding"
    /\ UNCHANGED << file, fields, call, tok, eof, from, before, held, failed, origin >>

\* Parse when ReadFile fails: return nil, err
ParseReadFail ==
    /\ pc = "new"
    /\ calls' = calls + 1
    /\ failed' = failed \cup { calls + 1 }
    /\ ret' = "nil"
    /\ err' = "io"
    /\ pc' = "done"
    /\ UNCHANGED << file, data, cur, end, fields, pos, call, tok, eof, from, nexts,
                    before, held, origin >>

\* origin after fill(field, progress) of Parse call n
Assigned(o, progress, n) ==
    [f \in FieldNameSet |->
        IF progress \in MapKeys /\ f = MapTarget[progress] THEN n ELSE o[f]]

\* one iteration of the loop of Parse: next(), the test for "", fill, pos++
ParseStep ==
    /\ pc = "decoding"
    /\ LET t == next(data, cur)
           r == fill(fields, t.tok, pos)
       IN  /\ cur' = t.cur
           /\ from' = cur
           /\ nexts' = nexts + 1
           /\ IF t.panic
              THEN /\ pc' = "panic:next"
                   /\ UNCHANGED << fields, pos, call, tok, eof, before, ret, err,
                                   held, failed, origin >>
              ELSE /\ tok' = t.tok
                   /\ eof' = t.eof
                   /\ IF t.tok = << >>
                      THEN /\ pc' = "done"
                           /\ ret' = "fields"
                           /\ err' = "nil"
                           /\ held' = TRUE
                           /\ UNCHANGED << fields, pos, call, before, failed, origin >>
                      ELSE /\ call' = << pos, t.tok >>
                           /\ before' = fields
                           /\ fields' = r.sf
                           /\ origin' = IF r.panic THEN origin
                                        ELSE Assigned(origin, pos, calls)
                           /\ IF r.panic
                              THEN /\ pc' = "panic:fill"
                                   /\ UNCHANGED << pos, ret, err, held, failed >>
                              ELSE IF r.err # "nil"
                              THEN /\ pc' = "done"
                                   /\ ret' = "nil"
                                   /\ err' = r.err
                                   /\ failed' = failed \cup { calls }
                                   /\ UNCHANGED << pos, held >>
                              ELSE /\ pos' = pos + 1
                                   /\ UNCHANGED << pc, ret, err, held, failed >>
    /\ UNCHANGED << file, data, end, calls >>

Next == ParseBegin \/ ParseReadFail \/ ParseStep

Spec == Init /\ [][Next]_vars

----------------------------------------------------------------------------
(* The tokenizer driven alone: any sequence of next() calls on a stream *)

InitStream ==
    \E f \in Buffers :
        /\ file = f
        /\ data = f
        /\ cur = 0
        /\ end = Len(f)
        /\ fields = ZeroStatField
        /\ pos = 0
        /\ call = << >>
        /\ tok = << >>
        /\ eof = FALSE
        /\ from = 0
        /\ nexts = 0
        /\ before = ZeroStatField
        /\ pc = "stream"
        /\ ret = "nil"
        /\ err = "nil"
        /\ held = FALSE
        /\ calls = 0
        /\ failed = {}
        /\ origin = NoOrigin

NextCall ==
    /\ pc = "stream"
    /\ nexts < MaxCalls
    /\ LET t == next(data, cur)
       IN  /\ cur' = t.cur
           /\ from' = cur
           /\ nexts' = nexts + 1
           /\ IF t.panic
              THEN /\ pc' = "panic:next"
                   /\ UNCHANGED << tok, eof >>
              ELSE /\ tok' = t.tok
                   /\ eof' = t.eof
                   /\ pc' = pc
    /\ UNCHANGED << file, data, end, fields, pos, call, before, ret, err, held,
                    calls, failed, origin >>

SpecStream == InitStream /\ [][NextCall]_vars

\* Parse on short buffers, where a Parse that was called runs on: the loop
\* is sequential code that nothing suspends
InitLive == \E f \in ShortBuffers \cup ReuseFiles : NewStat(f)

SpecLive == InitLive /\ [][Next]_vars /\ WF_vars(Next)

----------------------------------------------------------------------------
(* fill called on its own, with any token at any position *)

InitFill ==
    \E sf \in FillRecords, t \in FillTokens, p \in FillPositions :
        /\ file = << >>
        /\ data = << >>
        /\ cur = 0
        /\ end = 0
        /\ fields = sf
        /\ pos = p
        /\ call = << >>
        /\ tok = t
        /\ eof = FALSE
        /\ from = 0
        /\ nexts = 0
        /\ before = sf
        /\ pc = "call"
        /\ ret = "nil"
        /\ err = "nil"
        /\ held = FALSE
        /\ calls = 0
        /\ failed = {}
        /\ origin = NoOrigin

FillCall ==
    /\ pc = "call"
    /\ LET r == fill(fields, tok, pos)
       IN  /\ call' = << pos, tok >>
           /\ before' = fields
           /\ fields' = r.sf
           /\ err' = r.err
           /\ pc' = IF r.panic THEN "panic:fill" ELSE "returned"
    /\ UNCHANGED << file, data, cur, end, pos, tok, eof, from, nexts, ret, held,
                    calls, failed, origin >>

\* fill as Parse calls it and as any other caller may
SpecFill == (Init \/ InitFill) /\ [][Next \/ FillCall]_vars

----------------------------------------------------------------------------
(* One Stat parsed again and again while the file changes *)

InitReuse == \E f \in ReuseFiles : NewStat(f)

\* the file has new contents and the caller is about to call Parse again
Rewrite ==
    /\ pc = "done"
    /\ calls < MaxParses
    /\ file' \in ReuseFiles
    /\ pc' = "new"
    /\ UNCHANGED << data, cur, end, fields, pos, call, tok, eof, from, nexts, before,
                    ret, err, held, calls, failed, origin >>

SpecReuse == InitReuse /\ [][Next \/ Rewrite]_vars

----------------------------------------------------------------------------
(* Reference reading of a record, independent of next() and of the covers *)

\* index of the first newline, Len(b)+1 when there is none
FirstNL(b) ==
    IF \E i \in 1..Len(b) : b[i] = NL
    THEN CHOOSE i \in 1..Len(b) : b[i] = NL /\ \A j \in 1..(i - 1) : b[j] # NL
    ELSE Len(b) + 1

\* the bytes before the first newline
Line(b) == SubSeq(b, 1, FirstNL(b) - 1)

HasNL(b) == FirstNL(b) <= Len(b)

\* split on single spaces, as strings.Split(line, " "):
\* the k-th piece of l, when Spaces(l) are the indexes of its spaces
Spaces(l) == { j \in 1..Len(l) : l[j] = SP }

Piece(l, k) ==
    LET sp == Spaces(l)
        nth(n) == CHOOSE j \in sp : Cardinality({ x \in sp : x < j }) = n - 1
        lo == IF k = 1 THEN 0 ELSE nth(k - 1)
        hi == IF k = Cardinality(sp) + 1 THEN Len(l) + 1 ELSE nth(k)
    IN  SubSeq(l, lo + 1, hi - 1)

RefSplit(b) ==
    LET l == Line(b)
    IN  [k \in 1..(Cardinality(Spaces(l)) + 1) |-> Piece(l, k)]

\* the maximal runs of non-space bytes before the newline
Segments(b) == SelectSeq(RefSplit(b), LAMBDA t : t # << >>)

Signed(type) == type \in { "int16", "int32", "int64" }

Bits(type) ==
    CASE type \in { "int16", "uint16" } -> 16
      [] type \in { "int32", "uint32" } -> 32
      [] type \in { "int64", "uint64" } -> 64

IsIntType(type) == type \notin { "string", "StatTaskState" }

\* an optional sign and at least one decimal digit
IsLiteral(t) ==
    /\ t # << >>
    /\ LET ds == IF t[1] \in { 43, 45 } THEN Tail(t) ELSE t
       IN  ds # << >> /\ \A i \in 1..Len(ds) : IsDigit(ds[i])

StripZeros(ds) ==
    LET nz == { i \in 1..Len(ds) : ds[i] # 0 }
    IN  IF nz = {} THEN << >>
        ELSE SubSeq(ds, CHOOSE i \in nz : \A j \in nz : i <= j, Len(ds))

\* the number a literal denotes
RefNum(t) ==
    LET ds == IF t[1] \in { 43, 45 } THEN Tail(t) ELSE t
    IN  Num(t[1] = 45, StripZeros([i \in 1..Len(ds) |-> ds[i] - 48]))

\* v lies in the range of the integer type
InTypeRange(v, type) ==
    IF Signed(type)
    THEN IF v.neg THEN ~MagLess(Cutoff(Bits(type)), v.mag)
         ELSE MagLess(v.mag, Cutoff(Bits(type)))
    ELSE ~v.neg /\ ~MagLess(MaxVal(Bits(type)), v.mag)

\* the token is what the declared type of position i can hold
TokenFits(t, i) ==
    CASE FieldTypes[i] = "string" -> t # << >>
      [] FieldTypes[i] = "StatTaskState" -> Len(t) = 1 /\ t[1] < 128
      [] OTHER -> /\ IsLiteral(t)
                  /\ Signed(FieldTypes[i]) \/ t[1] \notin { 43, 45 }
                  /\ InTypeRange(RefNum(t), FieldTypes[i])

\* the value the reference gives the token of position i
RefValue(t, i) ==
    CASE FieldTypes[i] = "string" -> t
      [] FieldTypes[i] = "StatTaskState" -> t[1]
      [] OTHER -> RefNum(t)

\* 52 tokens, single spaces, one newline at the very end, every token fits
WellFormed(b) ==
    /\ b # << >>
    /\ FirstNL(b) = Len(b)
    /\ Len(RefSplit(b)) = NumFields
    /\ \A i \in 1..NumFields : TokenFits(RefSplit(b)[i], i)

Panicked == pc \in { "panic:next", "panic:fill" }

\* Parse read the file and its decode has ended, by returning or by a panic
ParseEnded == (pc = "done" /\ err # "io") \/ (Panicked /\ calls > 0)

----------------------------------------------------------------------------
(* Claims *)

\* C1: for every well-formed 52-token record Parse succeeds and every field
\* of the record holds the reference value of the token of its position.
C1_EveryFieldDecoded ==
    (ParseEnded /\ WellFormed(file)) =>
        /\ pc = "done" /\ ret = "fields" /\ err = "nil"
        /\ \A i \in 1..NumFields :
              fields[FieldNames[i]] = RefValue(RefSplit(file)[i], i)

\* C2: the tokenizer never indexes the buffer at or beyond its length,
\* whatever the buffer and however many next() calls were made.
C2_NoReadBeyondBuffer == pc = "panic:next" => InRange(data, cur)

\* the buffer ends right after the last byte of its final token, and its
\* tokens are separated by single spaces
EndsInToken(b) ==
    /\ b # << >>
    /\ ~HasNL(b)
    /\ \A i \in 1..Len(RefSplit(b)) : RefSplit(b)[i] # << >>

\* C3: when the buffer ends right after its final token, and no conversion
\* failed, Parse returns having given that token to fill at its position.
C3_LastFieldKept ==
    (ParseEnded /\ EndsInToken(file) /\ err = "nil") =>
        /\ pc = "done" /\ ret = "fields"
        /\ call = << Len(RefSplit(file)), RefSplit(file)[Len(RefSplit(file))] >>
        /\ fields = fill(before, call[2], call[1]).sf

\* the bytes from index c (0-based) up to the next space, newline or the end
RunFrom(d, c) ==
    LET stops == { j \in (c + 1)..Len(d) : d[j] \in { SP, NL } } \cup { Len(d) + 1 }
    IN  SubSeq(d, c + 1, (CHOOSE j \in stops : \A k \in stops : j <= k) - 1)

\* a next() begun at c meets the end of the record (newline or end of
\* buffer) with a non-empty token accumulated
EndsRecord(d, c) ==
    /\ RunFrom(d, c) # << >>
    /\ LET e == c + Len(RunFrom(d, c)) IN e >= Len(d) \/ d[e + 1] = NL

\* C4: a next() that meets the end of the record with a non-empty partial
\* token returns that token, and every call after the end of the record was
\* signalled returns the empty token and leaves the cursor where it was.
C4_LastTokenOnce ==
    [][ (pc = "stream" /\ nexts' = nexts + 1) =>
           /\ EndsRecord(data, cur) => (pc' = "stream" /\ tok' = RunFrom(data, cur))
           /\ (nexts > 0 /\ eof) => (pc' = "stream" /\ tok' = << >> /\ cur' = cur)
      ]_vars

\* C5: when Parse returns without a conversion error on a buffer that holds
\* a newline, it has obtained as many tokens as there are segments before
\* the newline.
C5_TokenCount ==
    (ParseEnded /\ HasNL(file) /\ err = "nil") =>
        /\ pc = "done"
        /\ pos - 1 = Len(Segments(file))

\* the last call of fill was at an integer position
IntCall == call # << >> /\ call[1] \in MapKeys /\ IsIntType(FieldTypes[call[1]])

\* what a cover leaves in the field when it fails: 0, or for a 64 bit range
\* error the bound the library saturates at
ErrorResults ==
    { Zero, Num(FALSE, MaxVal(64)), Num(FALSE, CutoffLess1(64)),
      Num(TRUE, Cutoff(64)) }

\* C6: decoding is all-or-nothing.  A Parse whose conversion fails at p
\* returns nil and the error at once, with no token read after p, and no
\* record a caller holds carries a value that a failed decode wrote.
C6_AllOrNothing ==
    /\ (pc = "done" /\ err \in { "syntax", "range" }) =>
          /\ ret = "nil"
          /\ call # << >> /\ call[1] = pos /\ nexts = pos
    /\ held => \A f \in FieldNameSet :
                  ~(origin[f] \in failed /\ fields[f] # ZeroValue(TypeOf(f)))

\* C7: at an integer position a decimal token whose value is outside the
\* range of the declared type makes fill fail, Parse return nil with the
\* error, and the field is left with the cover's error result, not with
\* the token's value cut to the width.
C7_OutOfRangeFails ==
    (IntCall /\ pc \in { "done", "returned" } /\ IsLiteral(call[2])
       /\ ~InTypeRange(RefNum(call[2]), FieldTypes[call[1]])) =>
        /\ err \in { "syntax", "range" }
        /\ (Signed(FieldTypes[call[1]]) \/ call[2][1] \notin { 43, 45 })
              => err = "range"
        /\ pc = "done" => ret = "nil"
        /\ fields[MapTarget[call[1]]] \in ErrorResults
        /\ Bits(FieldTypes[call[1]]) < 64 => fields[MapTarget[call[1]]] = Zero

C7_Witness ==
    /\ pc = "done" /\ err = "range" /\ ret = "nil"
    /\ IntCall /\ FieldTypes[call[1]] = "int32"
    /\ call[2] = Dec(Cutoff(32))

C9_StateNeverFails ==
    (call # << >> /\ call[1] = 3 /\ pc \notin { "panic:next" }) =>
        /\ pc # "panic:fill"
        /\ err = "nil"
        /\ (fields.State - call[2][1]) % 256 = 0

\* C10: at a position outside 1..52 fill returns nil for every token and
\* leaves the whole record as it was, so a token after the 52nd neither
\* aborts Parse nor alters the record.
C10_UnknownPositionIgnored ==
    (call # << >> /\ call[1] \notin 1..NumFields) =>
        /\ pc # "panic:fill"
        /\ err = "nil"
        /\ fields = before
        /\ pc = "done" => ret = "fields"

C10_Witness ==
    /\ pc = "done" /\ ret = "fields"
    /\ call # << >> /\ call[1] = NumFields + 1
    /\ fields = before /\ fields # ZeroStatField

\* the record starts with the nine tokens "1 (init) S 0 1 1 0 -1 4210944"
StartsAsInit(b) ==
    /\ HasNL(b)
    /\ Len(RefSplit(b)) >= Len(InitTokens)
    /\ \A i \in 1..Len(InitTokens) : RefSplit(b)[i] = InitTokens[i]

\* C11: decoding a record that starts "1 (init) S 0 1 1 0 -1 4210944" gives
\* pid 1, comm "init" without the enclosing parentheses, state Sleeping,
\* ppid 0 and taskFlags 4210944.
C11_InitExample ==
    (ParseEnded /\ StartsAsInit(file)) =>
        /\ pc = "done" /\ ret = "fields" /\ err = "nil"
        /\ fields.Pid = Num(FALSE, << 1 >>)
        /\ fields.Comm = << 105, 110, 105, 116 >>
        /\ fields.State = Sleeping
        /\ fields.PPid = Zero
        /\ fields.TaskFlags = Num(FALSE, << 4, 2, 1, 0, 9, 4, 4 >>)

\* what the code gives for that record: comm keeps its parentheses
InitExampleAsCoded ==
    (ParseEnded /\ StartsAsInit(file)) =>
        /\ pc = "done" /\ ret = "fields" /\ err = "nil"
        /\ fields.Pid = Num(FALSE, << 1 >>)
        /\ fields.Comm = << 40, 105, 110, 105, 116, 41 >>
        /\ fields.State = Sleeping
        /\ fields.PPid = Zero
        /\ fields.TaskFlags = Num(FALSE, << 4, 2, 1, 0, 9, 4, 4 >>)

\* a record a caller was given stays as it is
ReturnedRecordKept == [][ held => fields' = fields ]_vars

\* a returned record holds nothing but what this call's fills assigned
NothingCarriedOver ==
    (pc = "done" /\ ret = "fields") =>
        \A f \in FieldNameSet :
            fields[f] # ZeroValue(TypeOf(f)) => origin[f] = calls

\* C12: each decode produces its own record: a record returned by an
\* earlier Parse call is not changed by a later call, and the record a call
\* returns holds only values decoded by that call, none carried over.
C12_OwnRecord == ReturnedRecordKept /\ []NothingCarriedOver

\* one turn of the driver in Decoding: the token is applied at the current
\* position, which then grows by one, or the decode error ends the loop
TokenApplied ==
    /\ tok' # << >>
    /\ call' = << pos, tok' >>
    /\ \/ pc' = "decoding" /\ pos' = pos + 1 /\ err' = "nil"
       \/ pc' = "done" /\ err' \in { "syntax", "range" } /\ ret' = "nil"

\* the turn that ends the loop with the record and no error
LoopEnded ==
    /\ tok' = << >>
    /\ pc' = "done" /\ ret' = "fields" /\ err' = "nil"
    /\ fields' = fields /\ pos' = pos

\* C13: the driver has two states.  It starts in Decoding at position 1;
\* each token the tokenizer returns is applied at the current position and
\* the position grows by exactly 1; it moves to Done only on the tokenizer's
\* no-more-tokens signal, returning the record with no error, or on the
\* first decode error; nothing happens after Done.
C13_DriverStates ==
    [][ /\ pc' \in { "decoding", "done" }
        /\ pc = "new" => (pc' = "done" /\ err' = "io") \/ (pc' = "decoding" /\ pos' = 1)
        /\ pc = "decoding" => TokenApplied \/ (LoopEnded /\ eof')
        /\ pc = "done" => UNCHANGED vars
      ]_vars

\* the driver as coded: the loop ends on any empty token, signalled or not,
\* and a turn may end in a run-time panic instead
DriverAsCoded ==
    [][ /\ pc' \in { "decoding", "done", "panic:next", "panic:fill" }
        /\ pc = "new" => (pc' = "done" /\ err' = "io") \/ (pc' = "decoding" /\ pos' = 1)
        /\ pc = "decoding" => TokenApplied \/ LoopEnded \/ Panicked'
        /\ pc \in { "done", "panic:next", "panic:fill" } => UNCHANGED vars
      ]_vars

\* the decode of the record "42 (a b) s 4 5 ..." has ended as the shifted
\* positions make it end: s is refused at position 4 unless it is an
\* integer, and then the 52nd field arrives at position 53
CommSpaceEnd(s) ==
    /\ pc = "done"
    /\ IF TokenFits(s, 4)
       THEN /\ ret = "fields" /\ err = "nil"
            /\ call = << NumFields + 1, CommSpaceField(s, NumFields) >>
       ELSE /\ ret = "nil" /\ err = "syntax"
            /\ call = << 4, s >>

\* C14: for a record whose comm holds a space ("42 (a b) R 1 ...") the
\* tokenizer splits field 2 at that space, so every later token is applied
\* one position above its true field: "b)" is decoded as the state at
\* position 3 and the real state character as an integer at position 4.
C14_CommSpaceShifts ==
    \A s \in CommSpaceStates :
        (file = CommSpaceRecord(s) \o << NL >> /\ call # << >>) =>
            /\ ~Panicked
            /\ call[1] = 1 => call[2] = CommSpaceField(s, 1)
            /\ call[1] = 2 => call[2] = << 40, 97 >>
            /\ call[1] = 3 => call[2] = << 98, 41 >>
            /\ call[1] >= 4 => call[2] = CommSpaceField(s, call[1] - 1)
            /\ call[1] >= 2 => fields.Comm = << 40, 97 >>
            /\ call[1] >= 3 => fields.State = 98
            /\ (call[1] >= 4 /\ TokenFits(s, 4)) => fields.PPid = RefNum(s)
            /\ ParseEnded => CommSpaceEnd(s)

C14_Witness ==
    /\ file = CommSpaceRecord(<< Running >>) \o << NL >>
    /\ pc = "done" /\ ret = "nil" /\ err = "syntax"
    /\ call = << 4, << Running >> >>
    /\ fields.Comm = << 40, 97 >> /\ fields.State = 98

\* a next() call leaves the cursor where it was or further on, and further on
\* when it returns a non-empty token
NoBacktrack ==
    [][ nexts' = nexts + 1 =>
          /\ cur' >= cur
          /\ (~Panicked' /\ tok' # << >>) => cur' > cur ]_vars

\* the next() calls made so far are at most len(buffer)+1
CallsBounded == pc \in { "decoding", "done" } => nexts <= Len(data) + 1

\* C15: the tokenizer never backtracks and the decode always ends: the
\* cursor never decreases, a call that returns a non-empty token advances
\* it by at least one byte, and for every buffer Parse reaches Done after
\* at most len(buffer)+1 calls of next().
C15_DecodeEnds ==
    /\ NoBacktrack
    /\ []CallsBounded
    /\ [](pc = "decoding" => <>(pc = "done"))

\* what holds of the code: the loop ends, in Done or in a panic
DecodeEndsOrPanics ==
    /\ NoBacktrack
    /\ [](pc \in { "decoding", "done", "panic:next", "panic:fill" }
            => nexts <= Len(data) + 1)
    /\ [](pc = "decoding" => <>(pc = "done" \/ Panicked))

\* the last fill was a successful one at a position of the table
FilledAt(i) ==
    /\ call # << >> /\ call[1] = i
    /\ pc \in { "decoding", "done", "returned" } /\ err = "nil"

\* C16: the table is injective on fields: a successful fill at position i
\* changes the field the data model names for i and no other, and no two
\* positions write the same field (12 writes MajFlt, 13 writes CMajFlt).
C16_OneFieldPerPosition ==
    \A i \in 1..NumFields : FilledAt(i) =>
        /\ TokenFits(call[2], i) => fields[FieldNames[i]] = RefValue(call[2], i)
        /\ \A f \in FieldNameSet \ { FieldNames[i] } : fields[f] = before[f]
        /\ \A j \in MapKeys \ { i } : MapTarget[j] # MapTarget[i]

\* what holds of the table as coded: a successful fill changes no field but
\* the one its closure assigns
OneFieldAsCoded ==
    \A i \in 1..NumFields : FilledAt(i) =>
        \A f \in FieldNameSet \ { MapTarget[i] } : fields[f] = before[f]

\* positions whose closure assigns another field than the data model names
Misdirected == { i \in MapKeys : MapTarget[i] # FieldNames[i] }

OnlyThirteenMisdirected == [](Misdirected = { 13 })

\* the number of non-empty pieces before the first empty one
LeadingTokens(b) ==
    LET ps == RefSplit(b)
        e == { i \in 1..Len(ps) : ps[i] = << >> }
    IN  IF e = {} THEN Len(ps) ELSE (CHOOSE i \in e : \A j \in e : i <= j) - 1

\* the record stops after k < 52 tokens, each fit for its position
StopsShort(b) ==
    /\ HasNL(b)
    /\ LeadingTokens(b) < NumFields
    /\ \A i \in 1..LeadingTokens(b) : TokenFits(RefSplit(b)[i], i)

\* C17: Parse ends the decode at the first empty token: for an input with
\* k < 52 valid tokens before the newline, a leading space or two spaces
\* after k tokens, Parse on a fresh Stat returns a record with no error in
\* which positions 1..k are decoded and the field of every position > k
\* holds its zero value.
C17_StopsAtEmptyToken ==
    (ParseEnded /\ StopsShort(file)) =>
        /\ pc = "done" /\ ret = "fields" /\ err = "nil"
        /\ pos = LeadingTokens(file) + 1
        /\ \A i \in 1..NumFields :
              fields[FieldNames[i]] =
                  IF i <= LeadingTokens(file) THEN RefValue(RefSplit(file)[i], i)
                  ELSE ZeroValue(FieldTypes[i])

\* the same with each field holding what the table's closures leave in it:
\* the token of the last position <= k that assigns it, or zero
StopsAtEmptyTokenAsCoded ==
    (ParseEnded /\ StopsShort(file)) =>
        /\ pc = "done" /\ ret = "fields" /\ err = "nil"
        /\ pos = LeadingTokens(file) + 1
        /\ \A f \in FieldNameSet :
              LET w == { i \in 1..LeadingTokens(file) : MapTarget[i] = f }
                  l == CHOOSE i \in w : \A j \in w : j <= i
              IN  fields[f] = IF w = {} THEN ZeroValue(TypeOf(f))
                              ELSE RefValue(RefSplit(file)[l], l)

====
